---- MODULE Spec2Model ----
(***************************************************************************)
(* da-cloud-commondatabase: a Cloudflare Worker that turns JSON "actions"  *)
(* posted to /api into SQL statements on a D1 store.                       *)
(*                                                                         *)
(* Two builds of the worker are in the repository:                         *)
(*   "index" : src/src/index.js (post, put, get, delete, index)            *)
(*   "usage" : the worker listed in src/usage.md, which adds exec,         *)
(*             create_table, list_tables, batch_post, drop_table,          *)
(*             create_index, list_indices, drop_index, takes the store     *)
(*             handle as a parameter and has "id" in allowedColumns.       *)
(* The variable build says which one is deployed; Spec runs index.js and   *)
(* SpecUsage runs the worker of usage.md.                                  *)
(*                                                                         *)
(* JavaScript strings are sequences of one-character strings, so that      *)
(* trim, toLowerCase, includes, startsWith and split are computed on the   *)
(* characters as the runtime computes them.                                *)
(***************************************************************************)
EXTENDS Integers, Sequences, FiniteSets, TLC

VARIABLES build, phase, store, before, now, req, calls, logs, ret, resp, last,
          G_CTX, G_DB, inflight, uses

vars == <<build, phase, store, before, now, req, calls, logs, ret, resp, last,
          G_CTX, G_DB, inflight, uses>>

(***************************************************************************)
(* Strings                                                                 *)
(***************************************************************************)
Whitespace == {" ", "\t", "\n"}

UpperToLower ==
  [c \in {"A","B","C","D","E","F","G","H","I","J","K","L","M","N","O","P","Q","R","S","T","U","V","W","X","Y","Z"} |->
     CASE c = "A" -> "a" [] c = "B" -> "b" [] c = "C" -> "c" [] c = "D" -> "d"
       [] c = "E" -> "e" [] c = "F" -> "f" [] c = "G" -> "g" [] c = "H" -> "h"
       [] c = "I" -> "i" [] c = "J" -> "j" [] c = "K" -> "k" [] c = "L" -> "l"
       [] c = "M" -> "m" [] c = "N" -> "n" [] c = "O" -> "o" [] c = "P" -> "p"
       [] c = "Q" -> "q" [] c = "R" -> "r" [] c = "S" -> "s" [] c = "T" -> "t"
       [] c = "U" -> "u" [] c = "V" -> "v" [] c = "W" -> "w" [] c = "X" -> "x"
       [] c = "Y" -> "y" [] c = "Z" -> "z"]

\* String.prototype.toLowerCase
toLowerCase(s) ==
  [i \in 1..Len(s) |-> IF s[i] \in DOMAIN UpperToLower THEN UpperToLower[s[i]] ELSE s[i]]

RECURSIVE trimStart(_)
trimStart(s) ==
  IF s # <<>> /\ Head(s) \in Whitespace THEN trimStart(Tail(s)) ELSE s

RECURSIVE trimEnd(_)
trimEnd(s) ==
  IF s # <<>> /\ s[Len(s)] \in Whitespace THEN trimEnd(SubSeq(s, 1, Len(s) - 1)) ELSE s

\* String.prototype.trim
trim(s) == trimEnd(trimStart(s))

\* String.prototype.includes
includes(s, sub) ==
  \E i \in 1..(Len(s) - Len(sub) + 1) : SubSeq(s, i, i + Len(sub) - 1) = sub

\* String.prototype.startsWith
startsWith(s, pre) ==
  /\ Len(s) >= Len(pre)
  /\ SubSeq(s, 1, Len(pre)) = pre

\* String.prototype.split(sep) for a one-character separator
RECURSIVE split(_, _)
split(s, sep) ==
  IF \A i \in 1..Len(s) : s[i] # sep
    THEN <<s>>
    ELSE LET k == CHOOSE i \in 1..Len(s) : s[i] = sep /\ \A j \in 1..(i - 1) : s[j] # sep
         IN  <<SubSeq(s, 1, k - 1)>> \o split(SubSeq(s, k + 1, Len(s)), sep)

(***************************************************************************)
(* String literals of the source                                           *)
(***************************************************************************)
K_table_name == <<"t","a","b","l","e","_","n","a","m","e">>
K_id == <<"i","d">>
K_request_id == <<"r","e","q","u","e","s","t","_","i","d">>
K_action == <<"a","c","t","i","o","n">>
K_payload == <<"p","a","y","l","o","a","d">>
K_minId == <<"m","i","n","I","d">>
K_offset == <<"o","f","f","s","e","t">>
K_order == <<"o","r","d","e","r">>
K_orderby == <<"o","r","d","e","r","b","y">>
K_limit == <<"l","i","m","i","t">>
K_query == <<"q","u","e","r","y">>
K_params == <<"p","a","r","a","m","s">>
K_data == <<"d","a","t","a">>
K_column == <<"c","o","l","u","m","n">>
K_c1_unique == <<"c","1","_","u","n","i","q","u","e">>
K_unique == <<"u","n","i","q","u","e">>
K_bogus == <<"b","o","g","u","s">>
A_post == <<"p","o","s","t">>
A_put == <<"p","u","t">>
A_get == <<"g","e","t">>
A_delete == <<"d","e","l","e","t","e">>
A_index == <<"i","n","d","e","x">>
A_exec == <<"e","x","e","c">>
A_create_table == <<"c","r","e","a","t","e","_","t","a","b","l","e">>
A_list_tables == <<"l","i","s","t","_","t","a","b","l","e","s">>
A_batch_post == <<"b","a","t","c","h","_","p","o","s","t">>
A_drop_table == <<"d","r","o","p","_","t","a","b","l","e">>
A_create_index == <<"c","r","e","a","t","e","_","i","n","d","e","x">>
A_list_indices == <<"l","i","s","t","_","i","n","d","i","c","e","s">>
A_drop_index == <<"d","r","o","p","_","i","n","d","e","x">>
S_Bearer == <<"B","e","a","r","e","r"," ">>
S_desc == <<"d","e","s","c">>
S_sqlite_master == <<"s","q","l","i","t","e","_","m","a","s","t","e","r">>
S_sqlite_schema == <<"s","q","l","i","t","e","_","s","c","h","e","m","a">>
S_sqlite_temp_master == <<"s","q","l","i","t","e","_","t","e","m","p","_","m","a","s","t","e","r">>
S_sqlite_sequence == <<"s","q","l","i","t","e","_","s","e","q","u","e","n","c","e">>
S_cf == <<"_","c","f","_">>
S_POST == <<"P","O","S","T">>
S_api == <<"/","a","p","i">>
S_meta == <<"/","m","e","t","a">>
K_c1 == <<"c","1">>
K_i1 == <<"i","1">>
K_v1 == <<"v","1">>
K_v2 == <<"v","2">>

(***************************************************************************)
(* JavaScript values, as JSON.parse produces them.  t is the type tag; a    *)
(* number is n ("num") or n + 1/2 ("frac"); a boolean is n = 1 or 0; s are  *)
(* the characters of a string; a the items of an array; o the entries of an *)
(* object, <<key, value>> pairs in insertion order.                         *)
(***************************************************************************)
JS(t, n, s, a, o) == [t |-> t, n |-> n, s |-> s, a |-> a, o |-> o]

Undefined == JS("undefined", 0, <<>>, <<>>, <<>>)
Null      == JS("null", 0, <<>>, <<>>, <<>>)
Num(n)    == JS("num", n, <<>>, <<>>, <<>>)
Frac(n)   == JS("frac", n, <<>>, <<>>, <<>>)
Bool(b)   == JS("bool", IF b THEN 1 ELSE 0, <<>>, <<>>, <<>>)
Str(s)    == JS("str", 0, s, <<>>, <<>>)
Arr(a)    == JS("arr", 0, <<>>, a, <<>>)
Obj(o)    == JS("obj", 0, <<>>, <<>>, o)

\* ToBoolean: what `!v`, `v || w` and `if (v)` test
Truthy(v) ==
  CASE v.t \in {"undefined", "null"} -> FALSE
    [] v.t = "num"  -> v.n # 0
    [] v.t = "bool" -> v.n = 1
    [] v.t = "str"  -> v.s # <<>>
    [] OTHER        -> TRUE

\* v.k for a value that is neither null nor undefined: own properties of a
\* parsed JSON object; every other JSON value has none of the names used here
Get(v, k) ==
  IF v.t = "obj" /\ \E i \in 1..Len(v.o) : v.o[i][1] = k
    THEN v.o[CHOOSE i \in 1..Len(v.o) : v.o[i][1] = k][2]
    ELSE Undefined

Has(v, k) == v.t = "obj" /\ \E i \in 1..Len(v.o) : v.o[i][1] = k

IndexKeys == <<<<"0">>, <<"1">>, <<"2">>, <<"3">>, <<"4">>, <<"5">>, <<"6">>, <<"7">>, <<"8">>, <<"9">>>>

\* Object.keys(v); it throws on null and undefined, which the callers test first
ObjectKeys(v) ==
  CASE v.t = "obj" -> [i \in 1..Len(v.o) |-> v.o[i][1]]
    [] v.t = "arr" -> SubSeq(IndexKeys, 1, Len(v.a))
    [] v.t = "str" -> SubSeq(IndexKeys, 1, Len(v.s))
    [] OTHER       -> <<>>

SeqToSet(seq) == {seq[i] : i \in 1..Len(seq)}

(***************************************************************************)
(* Whitelists and table safety                                             *)
(***************************************************************************)
\* The worker of usage.md lists "id" first; index.js does not list it.
allowedColumns(b) ==
  (IF b = "usage" THEN <<K_id>> ELSE <<>>) \o
  <<K_c1, <<"c","2">>, <<"c","3">>, K_i1, <<"i","2">>, <<"i","3">>,
    <<"d","1">>, <<"d","2">>, <<"d","3">>, <<"t","1">>, <<"t","2">>, <<"t","3">>,
    K_v1, K_v2, <<"v","3">>>>

allowedQueryOptions == <<K_minId, K_offset, K_order, K_orderby, K_limit, K_table_name>>

\* allowedColumns.includes(v) for a JS value v (strict equality with a string)
IsAllowedColumn(b, v) == v.t = "str" /\ v.s \in SeqToSet(allowedColumns(b))

FORBIDDEN_TABLES == {S_sqlite_master, S_sqlite_schema, S_sqlite_temp_master, S_sqlite_sequence}

\* resolveTableName(payload): [threw, name]; name is Null or a string.
\* A truthy table_name that is no string has no trim method: TypeError.
resolveTableName_noForbidden(payload) ==
  LET tn == Get(payload, K_table_name) IN
  IF ~Truthy(tn) THEN [threw |-> FALSE, name |-> Null]
  ELSE IF tn.t # "str" THEN [threw |-> TRUE, name |-> Null]
  ELSE IF trim(tn.s) = <<>> THEN [threw |-> FALSE, name |-> Null]
  ELSE [threw |-> FALSE, name |-> Str(trim(tn.s))]

resolveTableName(payload) ==
  LET tn == Get(payload, K_table_name) IN
  IF ~Truthy(tn) THEN [threw |-> FALSE, name |-> Null]
  ELSE IF tn.t # "str" THEN [threw |-> TRUE, name |-> Null]
  ELSE IF trim(tn.s) = <<>> THEN [threw |-> FALSE, name |-> Null]
  ELSE IF trim(tn.s) \in FORBIDDEN_TABLES THEN [threw |-> FALSE, name |-> Null]
  ELSE [threw |-> FALSE, name |-> Str(trim(tn.s))]

(***************************************************************************)
(* SQL statements.  The statement text the worker concatenates is kept as   *)
(* its parts: verb, table, column list (INSERT columns, UPDATE SET columns, *)
(* index column), touch (", v2 = CURRENT_TIMESTAMP" in SET), where (the     *)
(* conditions joined by AND, each <<column, operator>> with one "?"),       *)
(* ORDER BY, LIMIT, index name, and raw for the text of exec.  binds are    *)
(* the values given to bind(), in order.                                    *)
(***************************************************************************)
NoStmt ==
  [verb |-> "", table |-> <<>>, cols |-> <<>>, touch |-> FALSE, where |-> <<>>,
   orderBy |-> <<>>, order |-> "", limit |-> 0, unique |-> FALSE, name |-> <<>>,
   raw |-> <<>>, binds |-> <<>>]

\* One call on the store handle: api is "run", "all", "batch" or "exec".
Call(api, stmts) == [api |-> api, stmts |-> stmts]

(***************************************************************************)
(* The store (Cloudflare D1, SQLite), as the worker uses it: tables of rows *)
(* with the fixed sixteen columns, an AUTOINCREMENT counter per table, and  *)
(* the index catalog.                                                       *)
(***************************************************************************)
TableColumns ==
  SeqToSet(allowedColumns("usage"))

TimestampColumns == {K_v1, K_v2, <<"v","3">>}

\* bind() accepts null, numbers, booleans and strings only
BindOk(binds) == \A i \in 1..Len(binds) : binds[i].t \in {"null", "num", "frac", "bool", "str"}

\* a bound boolean is stored as 1 or 0
ToSql(v) == IF v.t = "bool" THEN Num(v.n) ELSE v

CharOrder ==
  <<" ", "/", "0", "1", "2", "3", "4", "5", "6", "7", "8", "9",
    "A", "B", "C", "D", "E", "F", "G", "H", "I", "J", "K", "L", "M",
    "N", "O", "P", "Q", "R", "S", "T", "U", "V", "W", "X", "Y", "Z", "_",
    "a", "b", "c", "d", "e", "f", "g", "h", "i", "j", "k", "l", "m",
    "n", "o", "p", "q", "r", "s", "t", "u", "v", "w", "x", "y", "z">>

CharRank(c) ==
  IF \E i \in 1..Len(CharOrder) : CharOrder[i] = c
    THEN CHOOSE i \in 1..Len(CharOrder) : CharOrder[i] = c
    ELSE 0

RECURSIVE StrLess(_, _)
StrLess(x, y) ==
  IF y = <<>> THEN FALSE
  ELSE IF x = <<>> THEN TRUE
  ELSE IF Head(x) = Head(y) THEN StrLess(Tail(x), Tail(y))
  ELSE CharRank(Head(x)) < CharRank(Head(y))

\* SQLite's order of stored values: NULL, then numbers, then text
SqlClass(v) == CASE v.t = "null" -> 0 [] v.t \in {"num", "frac"} -> 1 [] OTHER -> 2

Twice(v) == 2 * v.n + (IF v.t = "frac" THEN 1 ELSE 0)

SqlLess(v, w) ==
  IF SqlClass(v) # SqlClass(w) THEN SqlClass(v) < SqlClass(w)
  ELSE CASE SqlClass(v) = 0 -> FALSE
         [] SqlClass(v) = 1 -> Twice(v) < Twice(w)
         [] OTHER           -> StrLess(v.s, w.s)

\* a comparison in WHERE: with NULL on either side it is not true
SqlTest(v, op, w) ==
  /\ v.t # "null"
  /\ w.t # "null"
  /\ CASE op = "=" -> v = w
       [] op = ">" -> SqlLess(w, v)
       [] OTHER    -> SqlLess(v, w)

Matches(row, stmt) ==
  \A i \in 1..Len(stmt.where) :
     SqlTest(row[stmt.where[i][1]], stmt.where[i][2],
             ToSql(stmt.binds[Len(stmt.binds) - Len(stmt.where) + i]))

RECURSIVE SortRows(_, _, _)
SortRows(rows, col, order) ==
  IF rows = <<>> THEN <<>>
  ELSE LET first ==
             CHOOSE i \in 1..Len(rows) :
               \A j \in 1..Len(rows) :
                  \/ j = i
                  \/ (IF order = "DESC" THEN SqlLess(rows[j][col], rows[i][col])
                                         ELSE SqlLess(rows[i][col], rows[j][col]))
                  \/ (~SqlLess(rows[i][col], rows[j][col]) /\ ~SqlLess(rows[j][col], rows[i][col]) /\ i < j)
       IN  <<rows[first]>> \o
           SortRows([k \in 1..(Len(rows) - 1) |-> IF k < first THEN rows[k] ELSE rows[k + 1]],
                    col, order)

\* SQLite LIKE: "%" is any run of characters, "_" any one character, letters
\* match in either case
RECURSIVE Like(_, _)
Like(s, pat) ==
  IF pat = <<>> THEN s = <<>>
  ELSE IF Head(pat) = "%" THEN \E k \in 0..Len(s) : Like(SubSeq(s, k + 1, Len(s)), Tail(pat))
  ELSE /\ s # <<>>
       /\ (Head(pat) = "_" \/ toLowerCase(<<Head(s)>>) = toLowerCase(<<Head(pat)>>))
       /\ Like(Tail(s), Tail(pat))

NewTable(uniq) == [rows |-> <<>>, seq |-> 0, uniq |-> uniq]

StoreResult(threw, msg, st, changes, results) ==
  [threw |-> threw, msg |-> msg, store |-> st, changes |-> changes, results |-> results]

StoreThrows(st, msg) == StoreResult(TRUE, msg, st, 0, <<>>)

Max(x, y) == IF x > y THEN x ELSE y

InsertedRow(tbl, stmt, t) ==
  LET given(c) == \E i \in 1..Len(stmt.cols) : stmt.cols[i] = c
      value(c) == ToSql(stmt.binds[CHOOSE i \in 1..Len(stmt.cols) : stmt.cols[i] = c])
  IN  [c \in TableColumns |->
         IF c = K_id THEN (IF given(c) /\ value(c).t = "num" THEN value(c) ELSE Num(tbl.seq + 1))
         ELSE IF given(c) THEN value(c)
         ELSE IF c \in TimestampColumns THEN Num(t)
         ELSE Null]

UniqueClash(tbl, row, except) ==
  \E i \in 1..Len(tbl.rows) :
     /\ i \notin except
     /\ \/ tbl.rows[i][K_id] = row[K_id]
        \/ tbl.uniq /\ row[K_c1].t # "null" /\ tbl.rows[i][K_c1] = row[K_c1]

\* every column the statement names is a column of the table
ColumnsKnown(stmt) ==
  /\ SeqToSet(stmt.cols) \subseteq TableColumns
  /\ \A i \in 1..Len(stmt.where) : stmt.where[i][1] \in TableColumns
  /\ stmt.verb = "SELECT" => stmt.orderBy \in TableColumns

\* the effect of one statement on the store at time t
Execute(st, stmt, t) ==
  LET known == stmt.table \in DOMAIN st.tables
      tbl   == st.tables[stmt.table]
  IN
  CASE stmt.verb = "RAW" ->
         IF ~BindOk(stmt.binds) THEN StoreThrows(st, "D1_TYPE_ERROR")
         ELSE StoreResult(FALSE, "", st, 0, <<>>)
    [] stmt.verb = "CREATE_TABLE" ->
         IF startsWith(toLowerCase(stmt.table), <<"s","q","l","i","t","e","_">>)
           THEN StoreThrows(st, "object name reserved for internal use")
         ELSE IF known THEN StoreResult(FALSE, "", st, 0, <<>>)
         ELSE StoreResult(FALSE, "",
                [st EXCEPT !.tables = [n \in DOMAIN st.tables \cup {stmt.table} |->
                                         IF n = stmt.table THEN NewTable(stmt.unique)
                                         ELSE st.tables[n]]],
                0, <<>>)
    [] stmt.verb = "DROP_TABLE" ->
         StoreResult(FALSE, "",
           [tables  |-> [n \in DOMAIN st.tables \ {stmt.table} |-> st.tables[n]],
            indices |-> {ix \in st.indices : ix.table # stmt.table}],
           0, <<>>)
    [] stmt.verb = "LIST_TABLES" ->
         StoreResult(FALSE, "", st, 0,
           LET names == {n \in DOMAIN st.tables :
                           /\ ~Like(n, <<"s","q","l","i","t","e","_","%">>)
                           /\ ~Like(n, <<"_","c","f","_","%">>)}
               RECURSIVE list(_)
               list(S) == IF S = {} THEN <<>>
                          ELSE LET n == CHOOSE x \in S : \A y \in S : x = y \/ ~StrLess(y, x)
                               IN  <<n>> \o list(S \ {n})
           IN  list(names))
    [] stmt.verb = "DROP_INDEX" ->
         StoreResult(FALSE, "",
           [st EXCEPT !.indices = {ix \in st.indices : ix.name # stmt.name}], 0, <<>>)
    [] ~known -> StoreThrows(st, "no such table")
    [] stmt.verb = "INDEX_LIST" ->
         StoreResult(FALSE, "", st, 0,
           LET names == {ix.name : ix \in {x \in st.indices : x.table = stmt.table}}
               RECURSIVE list(_)
               list(S) == IF S = {} THEN <<>>
                          ELSE LET n == CHOOSE x \in S : \A y \in S : x = y \/ ~StrLess(y, x)
                               IN  <<n>> \o list(S \ {n})
           IN  list(names))
    [] stmt.verb = "CREATE_INDEX" /\ ~ColumnsKnown(stmt) -> StoreThrows(st, "no such column")
    [] stmt.verb = "CREATE_INDEX" ->
         IF \E ix \in st.indices : ix.name = stmt.name
           THEN StoreResult(FALSE, "", st, 0, <<>>)
           ELSE StoreResult(FALSE, "",
                  [st EXCEPT !.indices = @ \cup {[name |-> stmt.name, table |-> stmt.table]}],
                  0, <<>>)
    [] ~ColumnsKnown(stmt) -> StoreThrows(st, "no such column")
    [] ~BindOk(stmt.binds) -> StoreThrows(st, "D1_TYPE_ERROR")
    [] stmt.verb = "INSERT" ->
         IF stmt.cols = <<>> THEN StoreThrows(st, "syntax error")
         ELSE LET row == InsertedRow(tbl, stmt, t) IN
              IF UniqueClash(tbl, row, {}) THEN StoreThrows(st, "UNIQUE constraint failed")
              ELSE StoreResult(FALSE, "",
                     [st EXCEPT !.tables[stmt.table] =
                        [tbl EXCEPT !.rows = Append(@, row),
                                    !.seq = Max(@, row[K_id].n)]],
                     1, <<>>)
    [] stmt.verb = "UPDATE" ->
         LET hit == {i \in 1..Len(tbl.rows) : Matches(tbl.rows[i], stmt)}
             set(row) ==
               [c \in TableColumns |->
                  IF c = K_v2 /\ stmt.touch THEN Num(t)
                  ELSE IF \E k \in 1..Len(stmt.cols) : stmt.cols[k] = c
                    THEN ToSql(stmt.binds[CHOOSE k \in 1..Len(stmt.cols) : stmt.cols[k] = c])
                  ELSE row[c]]
         IN  IF \E i \in hit : UniqueClash(tbl, set(tbl.rows[i]), {i})
               THEN StoreThrows(st, "UNIQUE constraint failed")
               ELSE StoreResult(FALSE, "",
                      [st EXCEPT !.tables[stmt.table].rows =
                         [i \in 1..Len(tbl.rows) |->
                            IF i \in hit THEN set(tbl.rows[i]) ELSE tbl.rows[i]]],
                      Cardinality(hit), <<>>)
    [] stmt.verb = "DELETE" ->
         LET keep(row) == ~Matches(row, stmt) IN
         StoreResult(FALSE, "",
           [st EXCEPT !.tables[stmt.table].rows = SelectSeq(tbl.rows, keep)],
           Len(tbl.rows) - Len(SelectSeq(tbl.rows, keep)), <<>>)
    [] stmt.verb = "SELECT" ->
         LET pick(row) == Matches(row, stmt)
             sorted    == SortRows(SelectSeq(tbl.rows, pick), stmt.orderBy, stmt.order)
         IN  StoreResult(FALSE, "", st, 0,
               SubSeq(sorted, 1, IF Len(sorted) < stmt.limit THEN Len(sorted) ELSE stmt.limit))
    [] OTHER -> StoreThrows(st, "syntax error")

\* db.batch(statements): all statements commit, or the first failure rolls
\* every one of them back; changes counts the results, one per statement
BatchResult(rest) == IF rest.threw THEN rest ELSE [rest EXCEPT !.changes = @ + 1]

RECURSIVE ExecuteBatch(_, _, _, _)
BatchStep(st0, r, stmts, t) ==
  IF r.threw THEN StoreThrows(st0, r.msg)
  ELSE BatchResult(ExecuteBatch(st0, r.store, stmts, t))

ExecuteBatch(st0, st, stmts, t) ==
  IF stmts = <<>> THEN StoreResult(FALSE, "", st, 0, <<>>)
  ELSE BatchStep(st0, Execute(st, Head(stmts), t), Tail(stmts), t)

(***************************************************************************)
(* The dispatcher: handleApiRequest(action, payload)                        *)
(*                                                                         *)
(* Its outcome is [ret, calls, logs, store]: ret is what it returns (kind   *)
(* "null", "error" with msg, "value" with tag, n and rows) or kind "throw"  *)
(* when an exception leaves it (kind "none": it was not called); calls are  *)
(* the calls it made on the store handle, in order; logs the messages given *)
(* to errDelegate.                                                          *)
(***************************************************************************)
Ret(kind, msg, tag, n, rows) == [kind |-> kind, msg |-> msg, tag |-> tag, n |-> n, rows |-> rows]

RetNone       == Ret("none", "", "", 0, <<>>)
RetNull       == Ret("null", "", "", 0, <<>>)
RetError(msg) == Ret("error", msg, "", 0, <<>>)
RetThrow(msg) == Ret("throw", msg, "", 0, <<>>)
RetValue(tag, n, rows) == Ret("value", "", tag, n, rows)

Out(r, c, l, st) == [ret |-> r, calls |-> c, logs |-> l, store |-> st]

\* the catch clause of handleApiRequest
Caught_rethrown(msg, c, l, st) == Out(RetThrow(msg), c, l, st)

Caught(msg, c, l, st) == Out(RetError(msg), c, l \o <<"DB operation failed">>, st)

\* String(v), as a template literal converts v
ToStr(v) ==
  CASE v.t = "str" -> v.s
    [] v.t = "num" /\ v.n \in 0..9 -> IndexKeys[v.n + 1]
    [] v.t = "bool" -> IF v.n = 1 THEN <<"t","r","u","e">> ELSE <<"f","a","l","s","e">>
    [] v.t = "null" -> <<"n","u","l","l">>
    [] OTHER -> <<"[","o","b","j","e","c","t","]">>

\* what a case returns once its store call has come back without an exception
Returned(r, tag) ==
  CASE tag = "null" -> RetNull
    [] tag = "put"  -> IF r.changes = 0 THEN RetError("Record not found") ELSE RetNull
    [] tag \in {"deleted", "inserted"} -> RetValue(tag, r.changes, <<>>)
    [] tag \in {"rows", "exec", "tables", "indices"} -> RetValue(tag, Len(r.results), r.results)
    [] OTHER -> RetValue(tag, 0, <<>>)

\* a store call with result r inside the try block: an exception goes to the
\* catch clause, otherwise the case logs okLogs and returns
Ran(r, c, l, okLogs, st, tag) ==
  IF r.threw THEN Caught(r.msg, c, l, st)
  ELSE Out(Returned(r, tag), c, l \o okLogs, r.store)

Values(payload, keys) == [i \in 1..Len(keys) |-> Get(payload, keys[i])]

WhereEq(keys) == [i \in 1..Len(keys) |-> <<keys[i], "=">>]

\* keys.filter(k => !allowedColumns.includes(k))
invalidKeys_none(b, keys) == <<>>

invalidKeys(b, keys) ==
  LET bad(k) == k \notin SeqToSet(allowedColumns(b)) IN SelectSeq(keys, bad)

\* Object.keys(payload).filter(k => k !== "table_name")
keysOf(payload) ==
  LET other(k) == k # K_table_name IN SelectSeq(ObjectKeys(payload), other)

\* Object.keys(payload).filter(k => k !== "table_name" && k !== "id")
keysPutOf(payload) ==
  LET other(k) == k # K_table_name /\ k # K_id IN SelectSeq(ObjectKeys(payload), other)

\* ---------- INSERT ----------
Case_post(b, tableName, payload, st, t) ==
  LET keys == keysOf(payload)
      stmt == [NoStmt EXCEPT !.verb = "INSERT", !.table = tableName, !.cols = keys,
                             !.binds = Values(payload, keys)]
  IN  IF invalidKeys(b, keys) # <<>> THEN Out(RetError("Invalid columns"), <<>>, <<>>, st)
      ELSE Ran(Execute(st, stmt, t), <<Call("run", <<stmt>>)>>, <<>>, <<>>, st, "null")

\* ---------- UPDATE / TOUCH ----------
putStatement_noTouch(tableName, payload) ==
  LET keysPut == keysPutOf(payload) IN
  [NoStmt EXCEPT !.verb = "UPDATE", !.table = tableName, !.cols = keysPut,
                 !.touch = keysPut # <<>>, !.where = <<<<K_id, "=">>>>,
                 !.binds = Values(payload, keysPut) \o <<Get(payload, K_id)>>]

putStatement(tableName, payload) ==
  LET keysPut == keysPutOf(payload) IN
  [NoStmt EXCEPT !.verb = "UPDATE", !.table = tableName, !.cols = keysPut,
                 !.touch = TRUE, !.where = <<<<K_id, "=">>>>,
                 !.binds = Values(payload, keysPut) \o <<Get(payload, K_id)>>]

Case_put(b, tableName, payload, st, t) ==
  LET stmt == putStatement(tableName, payload)
  IN  IF ~Truthy(Get(payload, K_id)) THEN Out(RetError("Missing 'id' for update"), <<>>, <<>>, st)
      ELSE IF invalidKeys(b, keysPutOf(payload)) # <<>>
        THEN Out(RetError("Invalid columns"), <<>>, <<>>, st)
      ELSE Ran(Execute(st, stmt, t), <<Call("run", <<stmt>>)>>, <<>>, <<>>, st, "put")

\* ---------- QUERY ----------
\* Number.isInteger(limit) && limit > 0 ? Math.min(limit, 500) : 100
getLimit_noClamp(limit) ==
  IF limit.t = "num" /\ limit.n > 0 THEN limit.n ELSE 100

getLimit(limit) ==
  IF limit.t = "num" /\ limit.n > 0
    THEN (IF limit.n < 500 THEN limit.n ELSE 500)
    ELSE 100

\* Object.keys(options).filter(k => !allowedQueryOptions.includes(k)), where
\* options is the payload without table_name
columnFilters(payload) ==
  LET other(k) == k \notin SeqToSet(allowedQueryOptions) IN SelectSeq(keysOf(payload), other)

getStatement(b, tableName, payload) ==
  LET filters == columnFilters(payload)
      order   == IF Get(payload, K_order) = Str(S_desc) THEN "DESC" ELSE "ASC"
      orderBy == IF IsAllowedColumn(b, Get(payload, K_orderby))
                   THEN Get(payload, K_orderby).s ELSE K_id
      cmp     == IF order = "ASC" THEN ">" ELSE "<"
      offset  == Get(payload, K_offset)
      minId   == Get(payload, K_minId)
      page    == IF offset.t \notin {"null", "undefined"} THEN <<offset>>
                 ELSE IF minId.t \notin {"null", "undefined"} THEN <<minId>>
                 ELSE <<>>
  IN  [NoStmt EXCEPT !.verb = "SELECT", !.table = tableName,
                     !.where = WhereEq(filters) \o [i \in 1..Len(page) |-> <<orderBy, cmp>>],
                     !.binds = Values(payload, filters) \o page,
                     !.orderBy = orderBy, !.order = order,
                     !.limit = getLimit(Get(payload, K_limit))]

\* options.minId !== undefined && options.offset !== undefined
bothPaging(payload) ==
  Get(payload, K_minId).t # "undefined" /\ Get(payload, K_offset).t # "undefined"

Case_get(b, tableName, payload, st, t) ==
  LET stmt == getStatement(b, tableName, payload)
  IN  IF invalidKeys(b, columnFilters(payload)) # <<>>
        THEN Out(RetError("Invalid column in filters"), <<>>, <<>>, st)
      ELSE IF bothPaging(payload)
        THEN Out(RetError("Cannot use both 'minId' and 'offset' together."), <<>>, <<>>, st)
      ELSE Ran(Execute(st, stmt, t), <<Call("all", <<stmt>>)>>, <<>>, <<>>, st, "rows")

\* ---------- DELETE ----------
Case_delete(b, tableName, payload, st, t) ==
  LET keys == keysOf(payload)
      stmt == [NoStmt EXCEPT !.verb = "DELETE", !.table = tableName,
                             !.where = WhereEq(keys), !.binds = Values(payload, keys)]
      l    == IF keys = <<>> THEN <<"DELETE ALL">> ELSE <<>>
  IN  IF invalidKeys(b, keys) # <<>> THEN Out(RetError("Invalid columns"), <<>>, <<>>, st)
      ELSE Ran(Execute(st, stmt, t), <<Call("run", <<stmt>>)>>, l, <<>>, st, "deleted")

\* ---------- CREATE INDEX ("index") ----------
Case_index(b, tableName, payload, st, t) ==
  LET col  == Get(payload, K_column)
      stmt == [NoStmt EXCEPT !.verb = "CREATE_INDEX", !.table = tableName,
                             !.cols = <<col.s>>,
                             !.name = <<"i","d","x","_">> \o tableName \o <<"_","_">> \o col.s]
  IN  IF ~Truthy(col) \/ col.t # "str"
        THEN Out(RetError("Missing or invalid column for index"), <<>>, <<>>, st)
      ELSE IF ~IsAllowedColumn(b, col) \/ col.s = K_id
        THEN Out(RetError("Index not allowed on column"), <<>>, <<>>, st)
      ELSE Ran(Execute(st, stmt, t), <<Call("exec", <<stmt>>)>>, <<>>, <<"INDEX created">>, st, "indexed")

(***************************************************************************)
(* The cases that only the worker of usage.md has                           *)
(***************************************************************************)
\* lowerQuery.includes("sqlite_master") || lowerQuery.includes("_cf_"), with
\* lowerQuery = query.toLowerCase().trim()
execForbidden_caseSensitive(query) ==
  \/ includes(trim(query), S_sqlite_master)
  \/ includes(trim(query), S_cf)

execForbidden(query) ==
  LET lowerQuery == trim(toLowerCase(query)) IN
  \/ includes(lowerQuery, S_sqlite_master)
  \/ includes(lowerQuery, S_cf)

\* ---------- EXEC ----------
\* the inner try block of exec: its catch returns the error without logging
RanExec(r, c, st) ==
  IF r.threw THEN Out(RetError("SQL Execution Error"), c, <<>>, st)
  ELSE Out(Returned(r, "exec"), c, <<>>, r.store)

Case_exec(b, tableName, payload, st, t) ==
  LET query  == Get(payload, K_query)
      params == Get(payload, K_params)
      stmt   == [NoStmt EXCEPT !.verb = "RAW", !.raw = query.s,
                               !.binds = IF Truthy(params) /\ params.t = "arr"
                                           THEN params.a ELSE <<>>]
  IN  IF ~Truthy(query) THEN Out(RetError("Missing SQL query"), <<>>, <<>>, st)
      ELSE IF query.t # "str"
        THEN Caught("query.toLowerCase is not a function", <<>>, <<>>, st)
      ELSE IF execForbidden(query.s)
        THEN Out(RetError("Access to system tables via EXEC is forbidden."), <<>>, <<>>, st)
      ELSE RanExec(Execute(st, stmt, t), <<Call("all", <<stmt>>)>>, st)

\* ---------- Create Table ----------
Case_create_table(b, tableName, payload, st, t) ==
  LET c1Unique == Truthy(Get(payload, K_c1_unique))
      idx(col) == [NoStmt EXCEPT !.verb = "CREATE_INDEX", !.table = tableName,
                                 !.cols = <<col>>,
                                 !.name = <<"i","d","x","_">> \o tableName \o <<"_">> \o col]
      statements ==
        <<[NoStmt EXCEPT !.verb = "CREATE_TABLE", !.table = tableName, !.unique = c1Unique]>>
        \o (IF c1Unique THEN <<>> ELSE <<idx(K_c1)>>)
        \o <<idx(K_v2)>>
  IN  Ran(ExecuteBatch(st, st, statements, t), <<Call("batch", statements)>>, <<>>, <<>>, st, "message")

\* ---------- List All Tables ----------
Case_list_tables(b, tableName, payload, st, t) ==
  LET stmt == [NoStmt EXCEPT !.verb = "LIST_TABLES", !.table = S_sqlite_master]
  IN  Ran(Execute(st, stmt, t), <<Call("all", <<stmt>>)>>, <<>>, <<>>, st, "tables")

\* ---------- Batch Insert ----------
\* Object.keys(record).filter(k => allowedColumns.includes(k))
recordKeys(b, record) ==
  LET ok(k) == k \in SeqToSet(allowedColumns(b)) IN SelectSeq(ObjectKeys(record), ok)

Case_batch_post(b, tableName, payload, st, t) ==
  LET records == Get(payload, K_data)
      insert(record) ==
        [NoStmt EXCEPT !.verb = "INSERT", !.table = tableName,
                       !.cols = recordKeys(b, record),
                       !.binds = Values(record, recordKeys(b, record))]
      statements == [i \in 1..Len(records.a) |-> insert(records.a[i])]
  IN  IF records.t # "arr" THEN Out(RetError("Payload 'data' must be an array"), <<>>, <<>>, st)
      ELSE IF \E i \in 1..Len(records.a) : records.a[i].t \in {"null", "undefined"}
        THEN Caught("Cannot convert undefined or null to object", <<>>, <<>>, st)
      ELSE Ran(ExecuteBatch(st, st, statements, t), <<Call("batch", statements)>>, <<>>, <<>>, st, "inserted")

\* ---------- Drop Table ----------
Case_drop_table(b, tableName, payload, st, t) ==
  LET stmt == [NoStmt EXCEPT !.verb = "DROP_TABLE", !.table = tableName]
  IN  Ran(Execute(st, stmt, t), <<Call("run", <<stmt>>)>>, <<>>, <<>>, st, "message")

\* ---------- Create Index ----------
Case_create_index(b, tableName, payload, st, t) ==
  LET col  == Get(payload, K_column)
      stmt == [NoStmt EXCEPT !.verb = "CREATE_INDEX", !.table = tableName,
                             !.cols = <<col.s>>, !.unique = Truthy(Get(payload, K_unique)),
                             !.name = <<"i","d","x","_">> \o tableName \o <<"_">> \o col.s]
  IN  IF ~Truthy(col) \/ ~IsAllowedColumn(b, col)
        THEN Out(RetError("Invalid or missing column"), <<>>, <<>>, st)
      ELSE Ran(Execute(st, stmt, t), <<Call("run", <<stmt>>)>>, <<>>, <<>>, st, "message")

\* ---------- List Indices ----------
Case_list_indices(b, tableName, payload, st, t) ==
  LET stmt == [NoStmt EXCEPT !.verb = "INDEX_LIST", !.table = tableName]
  IN  Ran(Execute(st, stmt, t), <<Call("all", <<stmt>>)>>, <<>>, <<>>, st, "indices")

\* ---------- Drop Index ----------
Case_drop_index(b, tableName, payload, st, t) ==
  LET col  == Get(payload, K_column)
      stmt == [NoStmt EXCEPT !.verb = "DROP_INDEX", !.cols = <<ToStr(col)>>,
                             !.name = <<"i","d","x","_">> \o tableName \o <<"_">> \o ToStr(col)]
  IN  IF ~Truthy(col) THEN Out(RetError("Missing column name to drop index"), <<>>, <<>>, st)
      ELSE Ran(Execute(st, stmt, t), <<Call("run", <<stmt>>)>>, <<>>, <<>>, st, "message")

(***************************************************************************)
(* handleApiRequest                                                        *)
(***************************************************************************)
IsAction(action, name) == action = Str(name)

handleApiRequest(b, action, payload, st, t) ==
  LET resolved  == resolveTableName(payload)
      tableName == resolved.name.s
      usage     == b = "usage"
  IN
  IF resolved.threw
    THEN Out(RetThrow("payload.table_name.trim is not a function"), <<>>, <<>>, st)
  ELSE IF resolved.name = Null
    THEN Out(RetError("Invalid or missing table_name"), <<>>,
             <<"Invalid or missing table_name">>, st)
  ELSE
  CASE usage /\ IsAction(action, A_exec)         -> Case_exec(b, tableName, payload, st, t)
    [] usage /\ IsAction(action, A_create_table) -> Case_create_table(b, tableName, payload, st, t)
    [] usage /\ IsAction(action, A_list_tables)  -> Case_list_tables(b, tableName, payload, st, t)
    [] usage /\ IsAction(action, A_batch_post)   -> Case_batch_post(b, tableName, payload, st, t)
    [] usage /\ IsAction(action, A_drop_table)   -> Case_drop_table(b, tableName, payload, st, t)
    [] usage /\ IsAction(action, A_create_index) -> Case_create_index(b, tableName, payload, st, t)
    [] usage /\ IsAction(action, A_list_indices) -> Case_list_indices(b, tableName, payload, st, t)
    [] usage /\ IsAction(action, A_drop_index)   -> Case_drop_index(b, tableName, payload, st, t)
    [] IsAction(action, A_post)   -> Case_post(b, tableName, payload, st, t)
    [] IsAction(action, A_put)    -> Case_put(b, tableName, payload, st, t)
    [] IsAction(action, A_get)    -> Case_get(b, tableName, payload, st, t)
    [] IsAction(action, A_delete) -> Case_delete(b, tableName, payload, st, t)
    [] IsAction(action, A_index)  -> Case_index(b, tableName, payload, st, t)
    [] OTHER -> Out(RetError("Unknown action"), <<>>, <<>>, st)

(***************************************************************************)
(* The HTTP wrapper: handleApi and fetch                                    *)
(*                                                                         *)
(* A request is [method, path, auth, json, body]: auth is the Authorization *)
(* header (Null when absent), json says whether the body parses as JSON,    *)
(* body is the parsed value.  A response is [status, type, request_id,      *)
(* code, message]; type "exception" is an exception that left fetch, which  *)
(* the runtime answers with status 500.                                     *)
(***************************************************************************)
DA_WRITE_TOKEN == <<"s","3">>

S_unknown == <<"u","n","k","n","o","w","n">>

Response(status, type, requestId, code, message) ==
  [status |-> status, type |-> type, request_id |-> requestId, code |-> code, message |-> message]

ack(requestId) == Response(200, "ack", requestId, "", "")

nack(requestId, code, message) == Response(400, "nack", requestId, code, message)

Uncaught(message) == Response(500, "exception", Undefined, "", message)

Handled(r, o) == [resp |-> r, ret |-> o.ret, calls |-> o.calls, logs |-> o.logs, store |-> o.store]

NotDispatched(r, st) == Handled(r, Out(RetNone, <<>>, <<>>, st))

\* the end of handleApi, o being the outcome of handleApiRequest: an
\* exception is not caught; a result with a truthy error is a nack
Answered(requestId, o) ==
  IF o.ret.kind = "throw" THEN Handled(Uncaught(o.ret.msg), o)
  ELSE IF o.ret.kind = "error" /\ o.ret.msg # ""
    THEN Handled(nack(requestId, "REQUEST_FAILED", o.ret.msg), o)
  ELSE Handled(ack(requestId), o)

handleApi(b, rq, st, t) ==
  LET auth      == rq.auth
      body      == rq.body
      requestId == IF Truthy(Get(body, K_request_id)) THEN Get(body, K_request_id)
                   ELSE Str(S_unknown)
      action    == IF Truthy(Get(body, K_action)) THEN Get(body, K_action) ELSE Str(<<>>)
  IN
  IF ~Truthy(auth) \/ ~startsWith(auth.s, S_Bearer)
    THEN NotDispatched(nack(Str(S_unknown), "UNAUTHORIZED",
                            "Missing or invalid Authorization header"), st)
  ELSE IF split(auth.s, " ")[2] # DA_WRITE_TOKEN
    THEN NotDispatched(nack(Str(S_unknown), "INVALID_TOKEN", "Token authentication failed"), st)
  ELSE IF ~rq.json
    THEN NotDispatched(nack(Str(S_unknown), "INVALID_JSON", "Malformed JSON body"), st)
  ELSE IF body.t = "null"
    THEN NotDispatched(Uncaught("Cannot read properties of null"), st)
  ELSE IF ~Truthy(Get(body, K_payload))
    THEN NotDispatched(nack(requestId, "INVALID_FIELD", "Missing payload"), st)
  ELSE Answered(requestId, handleApiRequest(b, action, Get(body, K_payload), st, t))

handleMeta(st) == NotDispatched(Response(200, "meta", Undefined, "", ""), st)

fetch(b, rq, st, t) ==
  IF rq.method # S_POST
    THEN NotDispatched(Response(405, "text", Undefined, "", "Method Not Allowed"), st)
  ELSE IF rq.path = S_api THEN handleApi(b, rq, st, t)
  ELSE IF rq.path = S_meta THEN handleMeta(st)
  ELSE NotDispatched(Response(404, "text", Undefined, "", "Not Found"), st)

(***************************************************************************)
(* Requests                                                                *)
(***************************************************************************)
\* requests handled in one behaviour (the clock of the store)
MaxClock == 2
\* keys of a payload besides table_name
MaxKeys == 2
\* records in the data array of batch_post
MaxBatch == 2
\* rows in the table a client pages through
MaxRows == 2

T_t == <<"t">>
V_a == <<"a">>

Q_select == <<"s","e","l","e","c","t"," ">>

Actions ==
  <<A_post, A_put, A_get, A_delete, A_index, A_exec, A_create_table, A_list_tables,
    A_batch_post, A_drop_table, A_create_index, A_list_indices, A_drop_index, <<"n","o","p">>>>

\* table_name entries: none, usable names, blank names, reserved names, and
\* values that are no strings
TableNameOptions ==
  {<<>>,
   <<<<K_table_name, Str(T_t)>>>>,
   <<<<K_table_name, Str(<<" ", "t", "\t">>)>>>>,
   <<<<K_table_name, Str(<<"u">>)>>>>,
   <<<<K_table_name, Str(<<>>)>>>>,
   <<<<K_table_name, Str(<<" ", "\n">>)>>>>,
   <<<<K_table_name, Str(S_sqlite_master)>>>>,
   <<<<K_table_name, Str(<<" ">> \o S_sqlite_schema \o <<" ">>)>>>>,
   <<<<K_table_name, Str(S_sqlite_temp_master)>>>>,
   <<<<K_table_name, Str(S_sqlite_sequence \o <<"\n">>)>>>>,
   <<<<K_table_name, Str(<<"S","Q","L","I","T","E","_","M","A","S","T","E","R">>)>>>>,
   <<<<K_table_name, Null>>>>,
   <<<<K_table_name, Num(5)>>>>}

CommonTableNames ==
  {<<<<K_table_name, Str(T_t)>>>>, <<<<K_table_name, Num(5)>>>>}

RecordOptions ==
  {Obj(<<<<K_c1, Str(V_a)>>>>),
   Obj(<<<<K_c1, Str(V_a)>>, <<K_bogus, Num(1)>>>>),
   Obj(<<>>),
   Null}

RECURSIVE SeqsUpTo(_, _)
SeqsUpTo(S, n) ==
  IF n = 0 THEN {<<>>}
  ELSE SeqsUpTo(S, n - 1) \cup
       {Append(q, x) : q \in {p \in SeqsUpTo(S, n - 1) : Len(p) = n - 1}, x \in S}

\* "id" as post sends it: a row id of its own choice
K_rowid == <<"i","d",":">>

KeyName(k) == IF k = K_rowid THEN K_id ELSE k

\* the values a key takes when it is present
Options(k) ==
  CASE k = K_id     -> {Num(0), Num(1), Num(2), Null}
    [] k = K_rowid  -> {Num(2)}
    [] k = K_c1     -> {Str(V_a)}
    [] k = K_i1     -> {Num(7)}
    [] k = K_v2     -> {Num(0)}
    [] k = K_bogus  -> {Num(1)}
    [] k = K_minId  -> {Num(0), Null}
    [] k = K_offset -> {Num(1)}
    [] k = K_order  -> {Str(S_desc)}
    [] k = K_orderby -> {Str(K_i1), Str(K_bogus)}
    [] k = K_limit  -> {Num(0), Num(-1), Num(1), Num(500), Num(10000), Frac(2),
                        Str(<<"1","0">>)}
    [] k = K_query  -> {Str(Q_select \o <<"1">>),
                        Str(Q_select \o S_sqlite_master),
                        Str(<<" ","S","E","L","E","C","T"," ","S","q","l","i","t","e","_","M","A","S","T","E","R"," ">>),
                        Str(Q_select \o S_sqlite_schema),
                        Str(Q_select \o S_sqlite_temp_master),
                        Str(Q_select \o S_sqlite_sequence),
                        Str(Q_select \o <<"_","C","F","_","K","V">>),
                        Num(5)}
    [] k = K_params -> {Arr(<<Num(50)>>), Str(V_a)}
    [] k = K_data   -> {Str(V_a)} \cup {Arr(q) : q \in SeqsUpTo(RecordOptions, MaxBatch)}
    [] k = K_column -> {Str(K_c1), Str(K_id), Str(K_bogus), Num(5)}
    [] OTHER        -> {Bool(TRUE)}

\* the keys, besides table_name, that payloads of an action are built from
KeysOf(action) ==
  CASE action = A_post   -> <<K_rowid, K_c1, K_bogus>>
    [] action = A_put    -> <<K_id, K_c1, K_v2, K_bogus>>
    [] action = A_get    -> <<K_c1, K_bogus, K_minId, K_offset, K_order, K_orderby, K_limit>>
    [] action = A_delete -> <<K_c1, K_i1, K_bogus>>
    [] action = A_exec   -> <<K_query, K_params>>
    [] action = A_create_table -> <<K_c1_unique>>
    [] action = A_batch_post   -> <<K_data>>
    [] action = A_create_index -> <<K_column, K_unique>>
    [] action \in {A_index, A_drop_index} -> <<K_column>>
    [] OTHER -> <<>>

\* a payload of the action that passes its validation, besides table_name
Typical(action) ==
  CASE action \in {A_post, A_delete} -> <<<<K_c1, Str(V_a)>>>>
    [] action = A_put  -> <<<<K_id, Num(1)>>>>
    [] action = A_exec -> <<<<K_query, Str(Q_select \o <<"1">>)>>, <<K_params, Arr(<<Num(50)>>)>>>>
    [] action = A_batch_post -> <<<<K_data, Arr(<<Obj(<<<<K_c1, Str(V_a)>>>>)>>)>>>>
    [] action \in {A_index, A_create_index, A_drop_index} -> <<<<K_column, Str(K_c1)>>>>
    [] OTHER -> <<>>

\* the entry lists over keys, in their order, with at most n keys present
RECURSIVE Entries(_, _)
Entries(keys, n) ==
  IF keys = <<>> THEN {<<>>}
  ELSE Entries(Tail(keys), n) \cup
       (IF n = 0 THEN {}
        ELSE {<<<<KeyName(Head(keys)), v>>>> \o rest :
                v \in Options(Head(keys)), rest \in Entries(Tail(keys), n - 1)})

Payloads(action) ==
  {Obj(tn \o rest) : tn \in CommonTableNames, rest \in Entries(KeysOf(action), MaxKeys)}
  \cup {Obj(tn \o Typical(action)) : tn \in TableNameOptions}

Request(method, path, auth, json, body) ==
  [method |-> method, path |-> path, auth |-> auth, json |-> json, body |-> body]

NoRequest == Request(<<>>, <<>>, Null, FALSE, Undefined)

GoodAuth == Str(S_Bearer \o DA_WRITE_TOKEN)

R_1 == <<"r","1">>

\* authorised POST /api requests with an action and a payload
ApiRequest(action, p) ==
  Request(S_POST, S_api, GoodAuth, TRUE,
          Obj(<<<<K_request_id, Str(R_1)>>, <<K_action, Str(action)>>, <<K_payload, p>>>>))

ApiRequests ==
  UNION {{ApiRequest(Actions[i], p) : p \in Payloads(Actions[i])} : i \in 1..Len(Actions)}

Bodies ==
  {Null, Num(1), Str(V_a), Arr(<<>>), Obj(<<>>),
   Obj(<<<<K_request_id, Str(R_1)>>>>),
   Obj(<<<<K_request_id, Str(R_1)>>, <<K_payload, Num(0)>>>>),
   Obj(<<<<K_request_id, Num(7)>>, <<K_payload, Str(V_a)>>>>),
   Obj(<<<<K_request_id, Num(0)>>, <<K_payload, Obj(<<<<K_table_name, Str(T_t)>>>>)>>>>),
   Obj(<<<<K_action, Str(A_get)>>, <<K_payload, Obj(<<<<K_table_name, Str(T_t)>>>>)>>>>),
   Obj(<<<<K_request_id, Str(R_1)>>, <<K_action, Num(1)>>,
         <<K_payload, Obj(<<<<K_table_name, Str(T_t)>>>>)>>>>)}

Auths ==
  {Null, Str(<<"B","e","a","r","e","r">>),
   Str(<<"B","a","s","i","c"," ">> \o DA_WRITE_TOKEN),
   Str(S_Bearer \o <<"s">>),
   GoodAuth,
   Str(S_Bearer \o DA_WRITE_TOKEN \o <<" ","x">>)}

\* requests that exercise the checks before the dispatcher
EnvelopeRequests ==
  {Request(m, p, a, j, IF j THEN b ELSE Undefined) :
     m \in {<<"G","E","T">>, S_POST}, p \in {S_api, S_meta, <<"/">>}, a \in Auths,
     j \in BOOLEAN, b \in Bodies}

Requests == ApiRequests \cup EnvelopeRequests

(***************************************************************************)
(* The state machine: one request at a time is received and answered (Fetch)*)
(* and its response handed over (Deliver).  last is a history variable:     *)
(* what the client remembers of the requests answered so far, kept only in  *)
(* the specifications that follow a client across requests.  The module    *)
(* variables G_CTX and G_DB of index.js matter only when requests overlap:  *)
(* they, the requests in flight and the uses made of contexts and store     *)
(* handles are followed in SpecConcurrent.                                  *)
(***************************************************************************)
InitStore ==
  [tables |-> [n \in {T_t} |-> NewTable(FALSE)], indices |-> {}]

InitCommon ==
  /\ phase = "idle"
  /\ store = InitStore
  /\ before = InitStore
  /\ now = 0
  /\ req = NoRequest
  /\ calls = <<>>
  /\ logs = <<>>
  /\ ret = RetNone
  /\ resp = Response(0, "", Undefined, "", "")
  /\ last = <<>>
  /\ G_CTX = 0
  /\ G_DB = 0
  /\ inflight = [n \in 1..MaxClock |-> [pc |-> "none", rq |-> NoRequest, after |-> <<>>]]
  /\ uses = {}

Init == build = "index" /\ InitCommon

InitUsage == build = "usage" /\ InitCommon

Fetch(rq) ==
  /\ phase = "idle"
  /\ now < MaxClock
  /\ \E h \in {fetch(build, rq, store, now + 1)} :
     /\ resp' = h.resp
     /\ ret' = h.ret
     /\ calls' = h.calls
     /\ logs' = h.logs
     /\ store' = h.store
  /\ before' = store
  /\ req' = rq
  /\ now' = now + 1
  /\ phase' = "done"
  /\ UNCHANGED build

Deliver ==
  /\ phase = "done"
  /\ phase' = "idle"
  /\ before' = store
  /\ req' = NoRequest
  /\ calls' = <<>>
  /\ logs' = <<>>
  /\ ret' = RetNone
  /\ resp' = Response(0, "", Undefined, "", "")
  /\ UNCHANGED <<build, store, now>>

Next ==
  \/ \E rq \in Requests : Fetch(rq) /\ UNCHANGED <<last, G_CTX, G_DB, inflight, uses>>
  \/ Deliver /\ UNCHANGED <<last, G_CTX, G_DB, inflight, uses>>

Spec == Init /\ [][Next]_vars

SpecUsage == InitUsage /\ [][Next]_vars

(***************************************************************************)
(* Properties                                                              *)
(***************************************************************************)
Done == phase = "done"

\* handleApiRequest was called for the request
Dispatched == ret.kind # "none"

Payload == Get(req.body, K_payload)

IsRequest(action) == Done /\ Dispatched /\ Get(req.body, K_action) = Str(action)

\* a table name the worker may use: a string with a character that is not
\* white space which, trimmed, is no reserved name
ValidTableName(v) ==
  /\ v.t = "str"
  /\ \E i \in 1..Len(v.s) : v.s[i] \notin Whitespace
  /\ trim(v.s) \notin {S_sqlite_master, S_sqlite_schema, S_sqlite_temp_master, S_sqlite_sequence}

Statements == UNION {SeqToSet(calls[i].stmts) : i \in 1..Len(calls)}

ValidationErrors ==
  {"Invalid columns", "Invalid column in filters", "Missing 'id' for update",
   "Cannot use both 'minId' and 'offset' together.", "Invalid or missing table_name"}

Rejected == ret.kind = "error" /\ ret.msg \in ValidationErrors /\ calls = <<>> /\ store = before

\* C1: post, put, delete and get with a valid table_name and a key that is
\* neither table_name, nor id (put), nor a query option (get), nor a
\* whitelisted column end in a validation error without any store call.
UnknownKey(action, k) ==
  /\ k # K_table_name
  /\ ~(action = A_put /\ k = K_id)
  /\ ~(action = A_get /\ k \in {K_minId, K_offset, K_order, K_orderby, K_limit})
  /\ k \notin SeqToSet(allowedColumns(build))

C1_UnknownKeyRejected ==
  \A action \in {A_post, A_put, A_delete, A_get} :
     (/\ IsRequest(action)
      /\ ValidTableName(Get(Payload, K_table_name))
      /\ \E k \in SeqToSet(ObjectKeys(Payload)) : UnknownKey(action, k))
     => Rejected

C1_Witness ==
  /\ IsRequest(A_put)
  /\ ValidTableName(Get(Payload, K_table_name))
  /\ Get(Payload, K_id) = Num(1)
  /\ Has(Payload, K_bogus)
  /\ Rejected

\* C2: whatever the action, a table_name that is missing, empty, only white
\* space or, trimmed, a reserved name gives the error "Invalid or missing
\* table_name" and no store call; with any other table_name every statement
\* submitted names the trimmed table_name.
UnusableTableName(v) ==
  \/ v.t \in {"undefined", "null"}
  \/ /\ v.t = "str"
     /\ \/ \A i \in 1..Len(v.s) : v.s[i] \in Whitespace
        \/ trim(v.s) \in {S_sqlite_master, S_sqlite_schema, S_sqlite_temp_master, S_sqlite_sequence}

C2_WitnessTrimmed ==
  /\ IsRequest(A_post)
  /\ Get(Payload, K_table_name) = Str(<<" ", "t", "\t">>)
  /\ \E stmt \in Statements : stmt.verb = "INSERT" /\ stmt.table = T_t

\* C3: batch_post is all or nothing.  With N records (objects with at least
\* one key) whose keys are all whitelisted, one batch call inserts exactly N
\* rows and inserted = N is returned; with a record that has a key outside the
\* whitelist the request ends in an error and no row is inserted.  (Stated
\* for a table that exists.)
RowCount(st, name) == IF name \in DOMAIN st.tables THEN Len(st.tables[name].rows) ELSE 0

OnlyWhitelisted(record) ==
  /\ record.t = "obj"
  /\ record.o # <<>>
  /\ SeqToSet(ObjectKeys(record)) \subseteq SeqToSet(allowedColumns(build))

HasForeignKey(record) ==
  /\ record.t = "obj"
  /\ \E k \in SeqToSet(ObjectKeys(record)) : k \notin SeqToSet(allowedColumns(build))

C3_BatchAllOrNothing ==
  (/\ IsRequest(A_batch_post)
   /\ Get(Payload, K_table_name) = Str(T_t)
   /\ T_t \in DOMAIN before.tables
   /\ Get(Payload, K_data).t = "arr")
  => LET records == Get(Payload, K_data).a
         N       == Len(records)
     IN  /\ (N > 0 /\ \A i \in 1..N : OnlyWhitelisted(records[i]))
              => /\ ret = RetValue("inserted", N, <<>>)
                 /\ Len(calls) = 1
                 /\ calls[1].api = "batch"
                 /\ Len(calls[1].stmts) = N
                 /\ RowCount(store, T_t) = RowCount(before, T_t) + N
         /\ (\E i \in 1..N : HasForeignKey(records[i]))
              => /\ ret.kind = "error"
                 /\ store = before

\* C4: the checks before the dispatcher, in their order: method POST (405),
\* path /api (404), an Authorization header "Bearer <token>" (nack
\* UNAUTHORIZED) whose token is the secret (nack INVALID_TOKEN), a body that
\* parses as JSON (nack INVALID_JSON) and has a payload (nack INVALID_FIELD).
\* The first check that fails decides the response, and the dispatcher and
\* the store are reached only when none fails.  The token is taken to be the
\* text between "Bearer " and the next space, and the worker's second
\* endpoint /meta is left aside.
BearerToken(auth) ==
  LET rest == SubSeq(auth.s, Len(S_Bearer) + 1, Len(auth.s))
      stop == IF \E i \in 1..Len(rest) : rest[i] = " "
                THEN (CHOOSE i \in 1..Len(rest) : rest[i] = " " /\ \A j \in 1..(i - 1) : rest[j] # " ") - 1
                ELSE Len(rest)
  IN  SubSeq(rest, 1, stop)

FirstFailingCheck(rq) ==
  IF rq.method # S_POST THEN "405"
  ELSE IF rq.path # S_api THEN "404"
  ELSE IF ~(rq.auth.t = "str" /\ Len(rq.auth.s) >= Len(S_Bearer)
            /\ SubSeq(rq.auth.s, 1, Len(S_Bearer)) = S_Bearer) THEN "UNAUTHORIZED"
  ELSE IF BearerToken(rq.auth) # DA_WRITE_TOKEN THEN "INVALID_TOKEN"
  ELSE IF ~rq.json THEN "INVALID_JSON"
  ELSE IF ~(rq.body.t = "obj" /\ Truthy(Get(rq.body, K_payload))) THEN "INVALID_FIELD"
  ELSE "none"

C4_ChecksInOrder ==
  (Done /\ req.path # S_meta) =>
     LET failing == FirstFailingCheck(req) IN
     /\ (Dispatched \/ calls # <<>>) => failing = "none"
     /\ failing = "405" => resp.status = 405
     /\ failing = "404" => resp.status = 404
     /\ failing \in {"UNAUTHORIZED", "INVALID_TOKEN", "INVALID_JSON", "INVALID_FIELD"}
          => resp.type = "nack" /\ resp.code = failing

\* C5: an exec request whose query contains "sqlite_master", in any letter
\* case and with or without white space around it, is answered with an error
\* (never with an ack) and nothing is prepared or executed on the store.
MentionsIgnoringCase(text, word) ==
  \E i \in 1..(Len(text) - Len(word) + 1) :
     \A j \in 1..Len(word) : toLowerCase(<<text[i + j - 1]>>) = <<word[j]>>

C5_CatalogQueryRejected ==
  (/\ IsRequest(A_exec)
   /\ Get(Payload, K_query).t = "str"
   /\ MentionsIgnoringCase(Get(Payload, K_query).s, S_sqlite_master))
  => /\ resp.type \in {"nack", "exception"}
     /\ ret.kind \in {"error", "throw"}
     /\ calls = <<>>
     /\ store = before

C5_Witness ==
  /\ IsRequest(A_exec)
  /\ Get(Payload, K_table_name) = Str(T_t)
  /\ Get(Payload, K_query) =
       Str(<<" ","S","E","L","E","C","T"," ","S","q","l","i","t","e","_","M","A","S","T","E","R"," ">>)
  /\ ret = RetError("Access to system tables via EXEC is forbidden.")
  /\ calls = <<>>

\* C6: exec never passes to the store a query whose lowercased text contains
\* one of the reserved table names (sqlite_master, sqlite_schema,
\* sqlite_temp_master, sqlite_sequence).
C6_NoReservedNameExecuted ==
  \A stmt \in Statements :
     stmt.verb = "RAW" =>
        \A name \in {S_sqlite_master, S_sqlite_schema, S_sqlite_temp_master, S_sqlite_sequence} :
           ~MentionsIgnoringCase(stmt.raw, name)

\* C7: an exec request as documented, with a payload of query and params only
\* and a query that names no system table, is prepared, run with the params
\* bound in order, and answered with the rows of the store.
C7_DocumentedExecRuns ==
  (/\ IsRequest(A_exec)
   /\ ObjectKeys(Payload) = <<K_query, K_params>>
   /\ Get(Payload, K_query).t = "str"
   /\ Get(Payload, K_params).t = "arr"
   /\ \A name \in {S_sqlite_master, S_sqlite_schema, S_sqlite_temp_master, S_sqlite_sequence, S_cf} :
         ~MentionsIgnoringCase(Get(Payload, K_query).s, name))
  => /\ calls = <<Call("all", <<[NoStmt EXCEPT !.verb = "RAW",
                                                !.raw = Get(Payload, K_query).s,
                                                !.binds = Get(Payload, K_params).a]>>)>>
     /\ ret.kind = "value"
     /\ ret.tag = "exec"
     /\ resp.type = "ack"

\* C8: put with a valid table_name, a row id and otherwise whitelisted columns
\* only issues exactly one UPDATE, keyed by that id, whose SET names the
\* columns supplied and always refreshes v2, also when no column is
\* supplied.  When the store answers, the result is success if the row exists
\* (its v2 is then the time of the request), and a "Record not found" error
\* with the store unchanged if no row has that id.
IsRowId(v) == v.t = "num" /\ v.n >= 1

RowsWithId(st, name, id) ==
  IF name \in DOMAIN st.tables
    THEN {i \in 1..Len(st.tables[name].rows) : st.tables[name].rows[i][K_id] = id}
    ELSE {}

StoreThrew == \E i \in 1..Len(logs) : logs[i] = "DB operation failed"

IsPutOfRow ==
  /\ IsRequest(A_put)
  /\ ValidTableName(Get(Payload, K_table_name))
  /\ IsRowId(Get(Payload, K_id))
  /\ \A k \in SeqToSet(ObjectKeys(Payload)) : ~UnknownKey(A_put, k)

C8_PutTouches ==
  IsPutOfRow =>
     LET name   == trim(Get(Payload, K_table_name).s)
         id     == Get(Payload, K_id)
         fields == SelectSeq(ObjectKeys(Payload), LAMBDA k : k \notin {K_table_name, K_id})
     IN  /\ Len(calls) = 1
         /\ calls[1].api = "run"
         /\ Len(calls[1].stmts) = 1
         /\ LET stmt == calls[1].stmts[1] IN
            /\ stmt.verb = "UPDATE"
            /\ stmt.table = name
            /\ stmt.cols = fields
            /\ stmt.touch
            /\ stmt.where = <<<<K_id, "=">>>>
            /\ stmt.binds[Len(stmt.binds)] = id
         /\ ~StoreThrew =>
              IF RowsWithId(before, name, id) # {}
                THEN /\ ret = RetNull
                     /\ \A i \in RowsWithId(store, name, id) :
                           store.tables[name].rows[i][K_v2] = Num(now)
                     /\ RowsWithId(store, name, id) = RowsWithId(before, name, id)
                ELSE /\ ret = RetError("Record not found")
                     /\ store = before

C8_Witness ==
  /\ IsPutOfRow
  /\ ObjectKeys(Payload) = <<K_table_name, K_id>>
  /\ RowsWithId(before, T_t, Get(Payload, K_id)) # {}
  /\ ret = RetNull
  /\ \E i \in RowsWithId(store, T_t, Get(Payload, K_id)) :
        /\ store.tables[T_t].rows[i][K_v2] = Num(now)
        /\ before.tables[T_t].rows[i][K_v2] # Num(now)

C8_WitnessNotFound ==
  /\ IsPutOfRow
  /\ RowsWithId(before, T_t, Get(Payload, K_id)) = {}
  /\ RowCount(before, T_t) > 0
  /\ ret = RetError("Record not found")
  /\ store = before

\* C9: get with both minId and offset in its payload returns a validation
\* error and makes no store call, whatever else the payload holds.
C9_BothPagingRejected ==
  (/\ IsRequest(A_get)
   /\ Has(Payload, K_minId)
   /\ Has(Payload, K_offset))
  => Rejected

\* C10: every SELECT that get issues has a LIMIT in 1..500: min(limit, 500)
\* for a limit that is a positive integer, 100 for any other or no limit.
C10_LimitClamped ==
  IsRequest(A_get) =>
     \A stmt \in Statements :
        stmt.verb = "SELECT" =>
           LET limit == Get(Payload, K_limit) IN
           /\ stmt.limit \in 1..500
           /\ stmt.limit = (IF limit.t = "num" /\ limit.n >= 1
                              THEN (IF limit.n <= 500 THEN limit.n ELSE 500)
                              ELSE 100)

C10_Witness ==
  /\ IsRequest(A_get)
  /\ Get(Payload, K_limit) = Num(10000)
  /\ \E stmt \in Statements : stmt.verb = "SELECT" /\ stmt.limit = 500

C10_WitnessDefault ==
  /\ IsRequest(A_get)
  /\ Get(Payload, K_limit) = Frac(2)
  /\ \E stmt \in Statements : stmt.verb = "SELECT" /\ stmt.limit = 100

\* C11: for a table name that resolveTableName accepts, with or without
\* c1_unique: the list_tables that follows a successful create_table of the
\* name includes the name, and the list_tables that follows a successful
\* drop_table of the name does not include it.
\* A client that creates, drops and lists tables; last is the table request
\* acked just before: <<action, trimmed table name>>.
TableRequests ==
  {ApiRequest(a, Obj(tn \o u)) :
     a  \in {A_create_table, A_drop_table, A_list_tables},
     tn \in TableNameOptions \cup {<<<<K_table_name, Str(<<"s","q","l","i","t","e","s">>)>>>>},
     u  \in {<<>>, <<<<K_c1_unique, Bool(TRUE)>>>>}}

Noted ==
  IF resp.type = "ack" /\ Get(req.body, K_action) \in {Str(A_create_table), Str(A_drop_table)}
    THEN <<Get(req.body, K_action).s, trim(Get(Payload, K_table_name).s)>>
    ELSE <<>>

NextTables ==
  \/ \E rq \in TableRequests : Fetch(rq) /\ UNCHANGED <<last, G_CTX, G_DB, inflight, uses>>
  \/ Deliver /\ last' = Noted /\ UNCHANGED <<G_CTX, G_DB, inflight, uses>>

SpecTables == InitUsage /\ [][NextTables]_vars

Listed == {ret.rows[i] : i \in 1..Len(ret.rows)}

C11_CreateListDrop ==
  (IsRequest(A_list_tables) /\ resp.type = "ack" /\ last # <<>>)
  => /\ last[1] = A_create_table => last[2] \in Listed
     /\ last[1] = A_drop_table => last[2] \notin Listed

\* C12: whenever the store throws on the statement of a request, the
\* dispatcher catches the exception and calls the log delegate, and the
\* response is a nack with status 400 that carries the message of the store:
\* never an ack, never an exception that reaches the HTTP layer.
StoreFailure ==
  IF Done /\ Dispatched /\ Len(calls) = 1 /\ Len(calls[1].stmts) = 1
    THEN Execute(before, calls[1].stmts[1], now)
    ELSE StoreResult(FALSE, "", before, 0, <<>>)

C13_NoExceptionEscapes ==
  (/\ Done
   /\ req.method = S_POST
   /\ req.path = S_api
   /\ req.auth = GoodAuth
   /\ req.json)
  => /\ resp.type \in {"ack", "nack"}
     /\ ret.kind # "throw"

\* C14: every ack and every nack envelope carries the request_id of the
\* request body when the body has one, and "unknown" only when it has none.
C14_RequestIdEchoed ==
  (Done /\ resp.type \in {"ack", "nack"})
  => IF Has(req.body, K_request_id)
       THEN resp.request_id = Get(req.body, K_request_id)
       ELSE resp.request_id = Str(S_unknown)

\* C15: create_index and drop_index submit a statement only for a column of
\* the whitelist: with a usable table_name and a column that is missing or
\* not whitelisted, either action returns an error and makes no store call.
C15_IndexColumnWhitelisted ==
  \A action \in {A_create_index, A_drop_index} :
     (IsRequest(action) /\ ValidTableName(Get(Payload, K_table_name)))
     => LET column == Get(Payload, K_column) IN
        /\ \A stmt \in Statements : SeqToSet(stmt.cols) \subseteq SeqToSet(allowedColumns(build))
        /\ ~(column.t = "str" /\ column.s \in SeqToSet(allowedColumns(build)))
             => ret.kind = "error" /\ calls = <<>> /\ store = before

\* C16: however two requests interleave at their await points, and whatever
\* requests came before, every store call and every call of the log delegate
\* made for a request uses the store handle, the execution context and the
\* table name that came with that request.
\*
\* Requests overlap at the awaits that wait for input or for the store:
\* await request.json() and await db...run() / all() / exec().  The n-th
\* request comes with context n and with an env whose DB handle is n.
\* Start: fetch is entered and runs up to await request.json().
Start(n, rq) ==
  /\ n = now + 1
  /\ now < MaxClock
  /\ inflight[n].pc = "none"
  /\ G_CTX' = n
  /\ inflight' = [inflight EXCEPT ![n] = [pc |-> "json", rq |-> rq, after |-> <<>>]]
  /\ now' = now + 1
  /\ UNCHANGED <<build, phase, store, before, req, calls, logs, ret, resp, last, G_DB, uses>>

\* Parsed: the body has arrived; handleApi sets G_DB, handleApiRequest reads
\* it, validates, calls errDelegate for what it logs before the store call,
\* and submits its statement.  Without a store call the request ends here.
Parsed(n) ==
  /\ inflight[n].pc = "json"
  /\ G_DB' = n
  /\ \E h \in {fetch(build, inflight[n].rq, store, now)} :
       LET early(m)  == h.calls = <<>> \/ m = "DELETE ALL"
           late(m)   == ~early(m)
           asked     == resolveTableName(Get(inflight[n].rq.body, K_payload)).name.s
           logged    == {[by |-> n, what |-> "log", with |-> G_CTX, table |-> asked, asked |-> asked] :
                           m \in SeqToSet(SelectSeq(h.logs, early))}
           submitted == {[by |-> n, what |-> "store", with |-> G_DB', table |-> stmt.table, asked |-> asked] :
                           stmt \in UNION {SeqToSet(h.calls[i].stmts) : i \in 1..Len(h.calls)}}
       IN  /\ uses' = uses \cup logged \cup submitted
           /\ store' = h.store
           /\ inflight' = [inflight EXCEPT ![n].pc = IF h.calls = <<>> THEN "done" ELSE "db",
                                           ![n].after = SelectSeq(h.logs, late)]
  /\ UNCHANGED <<build, phase, before, now, req, calls, logs, ret, resp, last, G_CTX>>

\* Stored: the store has answered; the catch clause, or the index case, calls
\* errDelegate, and the response is returned.
Stored(n) ==
  /\ inflight[n].pc = "db"
  /\ uses' = uses \cup
       {[by |-> n, what |-> "log", with |-> G_CTX, table |-> <<>>, asked |-> <<>>] :
          m \in SeqToSet(inflight[n].after)}
  /\ inflight' = [inflight EXCEPT ![n].pc = "done", ![n].after = <<>>]
  /\ UNCHANGED <<build, phase, store, before, now, req, calls, logs, ret, resp, last, G_CTX, G_DB>>

NextConcurrent ==
  \/ \E n \in 1..MaxClock :
       \E rq \in {ApiRequest(a, Obj(tn \o Typical(a))) :
                    a \in {A_post, A_get, A_index},
                    tn \in {<<>>, <<<<K_table_name, Str(T_t)>>>>, <<<<K_table_name, Str(<<"u">>)>>>>}}
                 \cup {ApiRequest(A_delete, Obj(<<<<K_table_name, Str(T_t)>>>>))} :
          Start(n, rq)
  \/ \E n \in 1..MaxClock : Parsed(n)
  \/ \E n \in 1..MaxClock : Stored(n)

SpecConcurrent == Init /\ [][NextConcurrent]_vars

C16_RequestsIsolated ==
  \A u \in uses :
     /\ u.with = u.by
     /\ u.what = "store" => u.table = u.asked

\* C17: a client that repeats get with the same orderby, order and filters,
\* passing as minId (or offset) the sort-column value of the last row of the
\* page before, is returned every matching row exactly once, in ascending and
\* in descending order and for every whitelisted orderby column.
\*
\* The table the client pages through, as post leaves it after these records.
RECURSIVE Populated(_)
Populated(records) ==
  IF records = <<>> THEN InitStore
  ELSE Case_post("index", T_t, records[Len(records)],
                 Populated(SubSeq(records, 1, Len(records) - 1)), 0).store

\* last is the client's paging state: the options it repeats, the option that
\* carries the bound, the bound, the rows returned so far, and whether an
\* empty page has ended the paging.
InitPaging ==
  /\ build = "index"
  /\ phase = "idle"
  /\ \E records \in SeqsUpTo({Obj(<<<<K_c1, Str(c)>>, <<K_i1, v>>>>) :
                                c \in {V_a}, v \in {Null, Num(1), Num(2)}}
                             \cup {Obj(<<<<K_c1, Str(<<"b">>)>>, <<K_i1, Num(1)>>>>)}, MaxRows) :
       /\ store = Populated(records)
       /\ before = Populated(records)
  /\ now = 0
  /\ req = NoRequest
  /\ calls = <<>>
  /\ logs = <<>>
  /\ ret = RetNone
  /\ resp = Response(0, "", Undefined, "", "")
  /\ \E orderby \in {<<>>, <<<<K_orderby, Str(K_i1)>>>>},
        order   \in {<<>>, <<<<K_order, Str(S_desc)>>>>},
        limit   \in {<<<<K_limit, Num(1)>>>>, <<<<K_limit, Num(2)>>>>},
        filter  \in {<<>>, <<<<K_c1, Str(V_a)>>>>},
        key     \in {K_minId, K_offset} :
       last = [opts |-> orderby \o order \o limit \o filter, key |-> key,
               bound |-> Undefined, seen |-> <<>>, over |-> FALSE]
  /\ G_CTX = 0
  /\ G_DB = 0
  /\ inflight = [n \in 1..MaxClock |-> [pc |-> "none", rq |-> NoRequest, after |-> <<>>]]
  /\ uses = {}

PageRequest ==
  ApiRequest(A_get, Obj(<<<<K_table_name, Str(T_t)>>>> \o last.opts \o
                        (IF last.bound = Undefined THEN <<>> ELSE <<<<last.key, last.bound>>>>)))

NextPaging ==
  \/ /\ ~last.over
     /\ Fetch(PageRequest)
     /\ UNCHANGED <<last, G_CTX, G_DB, inflight, uses>>
  \/ /\ Deliver
     /\ LET sortColumn == IF Has(Obj(last.opts), K_orderby)
                            THEN Get(Obj(last.opts), K_orderby).s ELSE K_id
        IN  last' = IF ret.rows = <<>>
                      THEN [last EXCEPT !.over = TRUE]
                      ELSE [last EXCEPT !.seen = @ \o ret.rows,
                                        !.bound = ret.rows[Len(ret.rows)][sortColumn]]
     /\ UNCHANGED <<G_CTX, G_DB, inflight, uses>>

SpecPaging == InitPaging /\ [][NextPaging]_vars

MatchingRows ==
  {r \in SeqToSet(store.tables[T_t].rows) :
     Has(Obj(last.opts), K_c1) => r[K_c1] = Get(Obj(last.opts), K_c1)}

C17_PagingComplete ==
  last.over =>
    /\ SeqToSet(last.seen) = MatchingRows
    /\ Len(last.seen) = Cardinality(MatchingRows)

====
